---------------------------- MODULE Spec2Model ----------------------------
(***************************************************************************)
(* Model of PulseOximeterBLE (src/PulseOximeterBLE.py): the session with   *)
(* a BLE pulse oximeter, its connection lifecycle and the acquisition loop *)
(* receive_data, run inline or on a worker thread.                         *)
(*                                                                         *)
(* Time is counted in ticks; TicksPerCenti ticks make one hundredth of a   *)
(* second, the quantum of round(t, 2).  Durations are given in ticks.      *)
(* A step of a thread holds at most one statement that writes a series of  *)
(* the session; the statements on locals around it belong to the same      *)
(* step.  A call on the session other than read() is one step.             *)
(*                                                                         *)
(* Three specifications share the state: Spec (connection lifecycle and    *)
(* acquisition), SpecConnect (the connection lifecycle over every scan)    *)
(* and SpecExport (acquisition followed by save_csv on a file system).     *)
(***************************************************************************)
EXTENDS Integers, Sequences, FiniteSets, TLC

\* ------------------------------------------------------------ bounds
\* Last tick of the clock.
MaxTime == 2
\* Largest duration (in ticks) passed to read().
MaxDuration == 1
\* Samples retained by one run.
MaxLen == 1
\* Calls on the session (connect, disconnect, read, stop_read) in a behaviour.
MaxCalls == 3
\* Advertisements one scan yields before its timeout.
MaxScan == 2
\* Ticks per hundredth of a second.
TicksPerCenti == 2

\* ------------------------------------------------------------ values
\* self.connection = None
None == 0
\* Addresses of the peripherals in range; a connection handle is named by
\* the address it is connected to.
Addrs == {1, 2}

\* The activations of receive_data (inline or on a worker thread) a behaviour
\* holds: two, so that two acquisition loops can overlap.
Proc == {1, 2}

\* Optional values: <<>> is Python's None, <<v>> is the value v.
NoValue == <<>>
Some(v) == <<v>>

NUL == "NUL"
\* The default target "BerryMed", abbreviated to two characters.
TargetName == <<"B", "M">>
\* advert.complete_name is None or a string (a sequence of characters). The
\* advertisements in range: no name, an empty name, the target with trailing
\* NULs, with a leading NUL, with a NUL inside, with one more character, and
\* the bare target.
Adverts ==
  { [complete_name |-> NoValue, addr |-> 1],
    [complete_name |-> Some(<<>>), addr |-> 2],
    [complete_name |-> Some(TargetName \o <<NUL, NUL>>), addr |-> 1],
    [complete_name |-> Some(<<NUL>> \o TargetName), addr |-> 2],
    [complete_name |-> Some(<<"B", NUL, "M">>), addr |-> 1],
    [complete_name |-> Some(TargetName \o <<"X">>), addr |-> 2],
    [complete_name |-> Some(TargetName), addr |-> 2] }


RECURSIVE SeqsUpTo(_, _)
SeqsUpTo(S, n) ==
  IF n = 0 THEN {<<>>}
  ELSE LET shorter == SeqsUpTo(S, n - 1)
       IN  shorter \cup {Append(s, x) : s \in {q \in shorter : Len(q) = n - 1}, x \in S}

\* Every scan the radio can yield within the bound.
AllScans == SeqsUpTo(Adverts, MaxScan)

\* The scans drawn while the acquisition loop is explored: nothing in range,
\* or the target at the first address.
SessionScans ==
  {<<>>, <<[complete_name |-> Some(TargetName \o <<NUL, NUL>>), addr |-> 1]>>}

\* Raw samples [valid, SpO2, BPM, pleth, finger_in]: one that passes the test
\* of line 157, and one failing each of its three conjuncts alone.
RawSamples ==
  { <<TRUE, 97, 254, 10, TRUE>>,
    <<FALSE, 97, 254, 10, TRUE>>,
    <<TRUE, 97, 254, 10, FALSE>>,
    <<TRUE, 97, 255, 10, TRUE>> }

Durations == {NoValue} \cup {Some(d) : d \in 0..MaxDuration}

\* Strings given to save_csv are sequences of characters; a directory name
\* counts as one character.
TXT == <<".", "t", "x", "t">>
CSV == <<".", "c", "s", "v">>
\* The argument `filename`: None, a .csv name, a name with another extension,
\* and a name of fewer than four characters.
Filenames ==
  { NoValue,
    Some(<<"a">> \o CSV),
    Some(<<"a", ".", "j", "s", "o", "n">>),
    Some(<<"t", "x", "t">>) }
\* The argument `folder`: the default 'Records/' and the same without its
\* separator.
FolderArgs == {<<"Records", "/">>, <<"Records">>}
\* The argument `prefix`: None, the empty string, a one-letter prefix.
Prefixes == {NoValue, Some(<<>>), Some(<<"p">>)}
\* datetime.now().strftime('%Y%m%d_%H%M%S'): the second of the wall clock.
Stamps == {<<"20240101_000000">>}

VARIABLES
  connection,     \* self.connection: None or a handle
  thread,         \* self.thread: None or a thread object
  BPM_series,     \* self.BPM_series: sequence of <<index, value>>
  SpO2_series,    \* self.SpO2_series
  Pleth_series,   \* self.Pleth_series
  full_record,    \* self.full_record
  timestamps,     \* self.timestamps
  device,         \* <<self.manufacturer, self.model_number>>, NoValue before read
  running,        \* the attribute `running` of each thread object
  linkUp,         \* per handle: the transport reports itself connected
  scanning,       \* the radio's advertising scan is active
  now,            \* time.perf_counter(), in ticks
  pc,             \* per activation of receive_data: where it stands
  threaded,       \* per activation: started by read(threaded=True)
  duration,       \* per activation: the argument `duration`
  t0,             \* per activation: local t0
  service,        \* per activation: local service (the handle it reads from)
  read_data,      \* per activation: local read_data
  t,              \* per activation: local t of the sample being stored
  loc_full_record,\* per activation: local full_record
  loc_timestamps, \* per activation: local timestamps
  exc,            \* per activation: the exception that ended receive_data
  lastCall,       \* the last call on the session that came back, and how
  scanned,        \* arguments of the last connect_pulse_oximeter call
  calls,          \* number of calls made on the session
  folders,        \* the directories that exist in the file system
  files           \* the files that exist: a set of [path, table]

sessionVars == <<connection, thread, BPM_series, SpO2_series, Pleth_series,
                 full_record, timestamps, device>>
envVars == <<running, linkUp, scanning, now>>
runVars == <<pc, threaded, duration, t0, service, read_data, t,
             loc_full_record, loc_timestamps, exc>>
obsVars == <<lastCall, scanned, calls>>
exportVars == <<folders, files>>
vars == <<sessionVars, envVars, runVars, obsVars, exportVars>>

Call(op, result) == [op |-> op, result |-> result]

\* ------------------------------------------------------------ helpers
\* Python truthiness of an optional string / number.
TruthyName(name) == name /= NoValue /\ name[1] /= <<>>
TruthyDuration(d) == d /= NoValue /\ d[1] /= 0

\* str.strip('\x00'): removes the NULs at both ends, none inside.
RECURSIVE LStrip(_)
LStrip(s) == IF s /= <<>> /\ Head(s) = NUL THEN LStrip(Tail(s)) ELSE s
RECURSIVE RStrip(_)
RStrip(s) ==
  IF s /= <<>> /\ s[Len(s)] = NUL THEN RStrip(SubSeq(s, 1, Len(s) - 1)) ELSE s
StripTrailing(s) == RStrip(s)
Strip(s) == RStrip(LStrip(s))

\* The test of lines 74-79 on one advertisement.
NameMatches(advert, target) ==
  /\ TruthyName(advert.complete_name)
  /\ Strip(advert.complete_name[1]) = target

\* The for loop of lines 72-86: the index of the advertisement at which the
\* loop breaks, 0 when the scan ends without a match.
RECURSIVE ScanLoop(_, _, _)
ScanLoopLast(scan, target, i) ==
  LET hits == {j \in i..Len(scan) : NameMatches(scan[j], target)}
  IN  IF hits = {} THEN 0 ELSE CHOOSE j \in hits : \A k \in hits : k <= j
ScanLoop(scan, target, i) ==
  IF i > Len(scan) THEN 0
  ELSE IF NameMatches(scan[i], target) THEN i
  ELSE ScanLoop(scan, target, i + 1)

\* The index and the values of a series of <<index, value>> entries.
Index(series) == [i \in 1..Len(series) |-> series[i][1]]
Values(series) == [i \in 1..Len(series) |-> series[i][2]]

\* The property `connected` (lines 37-39).
connectedCached == connection /= None
connected == connection /= None /\ linkUp[connection]

\* ------------------------------------------------------------ initial state
Init ==
  /\ connection = None
  /\ thread = None
  /\ BPM_series = <<>>
  /\ SpO2_series = <<>>
  /\ Pleth_series = <<>>
  /\ full_record = <<>>
  /\ timestamps = <<>>
  /\ device = NoValue
  /\ running = [p \in Proc |-> "unset"]
  /\ linkUp = [a \in Addrs |-> FALSE]
  /\ scanning = FALSE
  /\ now = 0
  /\ pc = [p \in Proc |-> "idle"]
  /\ threaded = [p \in Proc |-> FALSE]
  /\ duration = [p \in Proc |-> NoValue]
  /\ t0 = [p \in Proc |-> 0]
  /\ service = [p \in Proc |-> None]
  /\ read_data = [p \in Proc |-> NoValue]
  /\ t = [p \in Proc |-> 0]
  /\ loc_full_record = [p \in Proc |-> <<>>]
  /\ loc_timestamps = [p \in Proc |-> <<>>]
  /\ exc = [p \in Proc |-> "none"]
  /\ lastCall = Call("none", "returned")
  /\ scanned = [target |-> TargetName, scan |-> <<>>]
  /\ calls = 0
  /\ folders = {}
  /\ files = {}

\* ------------------------------------------------------------ connection lifecycle
\* connect_pulse_oximeter(target, timeout): `scan` is what start_scan yields
\* before the timeout, `linked` whether ble_radio.connect succeeds on the match.
ConnectCall(target, scan, linked) ==
  LET i == ScanLoop(scan, target, 1)
  IN  /\ calls < MaxCalls
      /\ calls' = calls + 1
      /\ scanned' = [target |-> target, scan |-> scan]
      /\ IF i = 0
         THEN /\ connection' = None
              /\ scanning' = FALSE
              /\ lastCall' = Call("connect", "returned")
              /\ UNCHANGED linkUp
         ELSE IF linked
         THEN /\ connection' = scan[i].addr
              /\ linkUp' = [linkUp EXCEPT ![scan[i].addr] = TRUE]
              /\ scanning' = FALSE
              /\ lastCall' = Call("connect", "returned")
         ELSE \* ble_radio.connect raises: line 89 is not reached
              /\ connection' = None
              /\ scanning' = TRUE
              /\ lastCall' = Call("connect", "ConnectionError")
              /\ UNCHANGED linkUp
      /\ UNCHANGED <<thread, BPM_series, SpO2_series, Pleth_series, full_record,
                     timestamps, device, running, now, runVars>>
      /\ UNCHANGED exportVars

\* disconnect_pulse_oximeter()
Disconnect ==
  /\ calls < MaxCalls
  /\ calls' = calls + 1
  /\ IF connection = None
     THEN \* None.disconnect(): AttributeError, not caught by line 100
          /\ lastCall' = Call("disconnect", "AttributeError")
          /\ UNCHANGED <<connection, linkUp>>
     ELSE /\ linkUp' = [linkUp EXCEPT ![connection] = FALSE]
          /\ connection' = None
          /\ lastCall' = Call("disconnect", "returned")
  /\ UNCHANGED <<thread, BPM_series, SpO2_series, Pleth_series, full_record,
                 timestamps, device, running, scanning, now, runVars, scanned>>
  /\ UNCHANGED exportVars

\* The peripheral drops the link on its own (out of range, power off).
TransportDrop ==
  \E a \in Addrs :
    /\ linkUp[a]
    /\ linkUp' = [linkUp EXCEPT ![a] = FALSE]
    /\ UNCHANGED <<sessionVars, running, scanning, now, runVars, obsVars>>
    /\ UNCHANGED exportVars

\* The monotonic clock advances.
Tick ==
  /\ now < MaxTime
  /\ now' = now + 1
  /\ UNCHANGED <<sessionVars, running, linkUp, scanning, runVars, obsVars>>
  /\ UNCHANGED exportVars

\* ------------------------------------------------------------ acquisition
\* What read_device_info() finds on the peripheral at address a: the first
\* exposes DeviceInfoService with a manufacturer and no model number, the
\* second does not expose the service.
DeviceInfo(a, old) ==
  IF a = 1
  THEN Some([manufacturer |-> "BerryMed", model_number |-> "(Model number not specified)"])
  ELSE old

\* round(t, 2) on a time in ticks: the nearest hundredth, ties to even.
Round2(x) ==
  LET q == x \div TicksPerCenti
      r == x % TicksPerCenti
  IN  IF 2 * r < TicksPerCenti THEN q
      ELSE IF 2 * r > TicksPerCenti THEN q + 1
      ELSE IF q % 2 = 0 THEN q ELSE q + 1

\* valid_sample (line 157) of raw = [valid, SpO2, BPM, pleth, finger_in].
ValidSampleNoFinger(raw) == raw[1] /\ raw[3] < 255
ValidSample(raw) == raw[1] /\ raw[5] /\ raw[3] < 255

\* The test of line 174.
TimeLimitReachedAtLeast(d, elapsed) == TruthyDuration(d) /\ elapsed >= d[1] + 2
TimeLimitReached(d, elapsed) == TruthyDuration(d) /\ elapsed > d[1]

\* The guard of read() (line 192).
ReadGuardHandleOnly == connection /= None
ReadGuard == connection /= None /\ linkUp[connection]

\* What the caller of read() sees when receive_data, run inline, raises e:
\* the except clause of lines 205-206 catches connection_error and then calls
\* the undefined global disconnect_pulse_oximeter, a NameError.
ReadBoundary(e) == IF e = "ConnectionError" THEN "NameError" ELSE e

\* receive_data of activation p ends with exception e and its locals are
\* gone. On a worker thread the exception ends the thread; inline it goes
\* through read() to the caller.
Raise(p, e) ==
  /\ pc' = [pc EXCEPT ![p] = "dead"]
  /\ exc' = [exc EXCEPT ![p] = e]
  /\ lastCall' = IF threaded[p] THEN lastCall ELSE Call("read", ReadBoundary(e))
  /\ duration' = [duration EXCEPT ![p] = NoValue]
  /\ t0' = [t0 EXCEPT ![p] = 0]
  /\ service' = [service EXCEPT ![p] = None]
  /\ read_data' = [read_data EXCEPT ![p] = NoValue]
  /\ t' = [t EXCEPT ![p] = 0]
  /\ loc_full_record' = [loc_full_record EXCEPT ![p] = <<>>]
  /\ loc_timestamps' = [loc_timestamps EXCEPT ![p] = <<>>]

\* receive_data of activation p returns: its locals are gone.
Return(p) ==
  /\ pc' = [pc EXCEPT ![p] = "done"]
  /\ lastCall' = IF threaded[p] THEN lastCall ELSE Call("read", "returned")
  /\ duration' = [duration EXCEPT ![p] = NoValue]
  /\ t0' = [t0 EXCEPT ![p] = 0]
  /\ service' = [service EXCEPT ![p] = None]
  /\ read_data' = [read_data EXCEPT ![p] = NoValue]
  /\ t' = [t EXCEPT ![p] = 0]
  /\ loc_full_record' = [loc_full_record EXCEPT ![p] = <<>>]
  /\ loc_timestamps' = [loc_timestamps EXCEPT ![p] = <<>>]
  /\ UNCHANGED exc

\* The while loop of line 151 is left for line 178. The value of read_data
\* is not used again: it is dropped here.
LoopExit(p) ==
  /\ pc' = [pc EXCEPT ![p] = "final"]
  /\ read_data' = [read_data EXCEPT ![p] = NoValue]
  /\ UNCHANGED <<exc, lastCall, duration, t0, service, t,
                 loc_full_record, loc_timestamps>>

\* The end of one iteration, lines 173-176: break on the time limit, or go
\* back to the loop condition.
EndOfIteration(p) ==
  pc' = [pc EXCEPT ![p] =
           IF TimeLimitReached(duration[p], now - t0[p]) THEN "final" ELSE "check"]

Active(p) == pc[p] \notin {"idle", "done", "dead"}
InLoop(p) == pc[p] \in {"check", "read", "upd1", "upd2", "upd3"}

\* read(duration, threaded) with duration = d and threaded = th.
ReadCall(d, th) ==
  /\ calls < MaxCalls
  /\ calls' = calls + 1
  /\ IF ~ReadGuard
     THEN /\ lastCall' = Call("read", "returned")
          /\ UNCHANGED <<sessionVars, envVars, runVars, scanned>>
     ELSE \E p \in Proc :
          /\ pc[p] = "idle"
          /\ \A q \in Proc : q < p => pc[q] /= "idle"
          /\ device' = DeviceInfo(connection, device)
          /\ pc' = [pc EXCEPT ![p] = "start"]
          /\ threaded' = [threaded EXCEPT ![p] = th]
          /\ duration' = [duration EXCEPT ![p] = d]
          /\ IF th
             THEN \* a new Thread object, without the attribute `running`
                  /\ thread' = p
                  /\ lastCall' = Call("read", "returned")
             ELSE \* the caller is inside receive_data until it ends
                  /\ UNCHANGED <<thread, lastCall>>
          /\ UNCHANGED <<connection, BPM_series, SpO2_series, Pleth_series,
                         full_record, timestamps, envVars, t0, service,
                         read_data, t, loc_full_record, loc_timestamps, exc,
                         scanned>>
  /\ UNCHANGED exportVars

Read == \E d \in Durations, th \in BOOLEAN : ReadCall(d, th)

\* stop_read()
StopRead ==
  /\ calls < MaxCalls
  /\ calls' = calls + 1
  /\ running' = IF thread /= None THEN [running EXCEPT ![thread] = "F"] ELSE running
  /\ lastCall' = Call("stop_read", "returned")
  /\ UNCHANGED <<sessionVars, linkUp, scanning, now, runVars, scanned>>
  /\ UNCHANGED exportVars

\* receive_data, lines 131-148. Line 131 fails on a None handle; on a handle
\* whose link is down the service lookup raises or answers from what it knows.
W_Start(p) ==
  /\ pc[p] = "start"
  /\ IF connection = None
     THEN /\ Raise(p, "TypeError")
          /\ UNCHANGED <<sessionVars, running>>
     ELSE \E lookup \in {ok \in BOOLEAN : ok \/ ~linkUp[connection]} :
     IF ~lookup
     THEN /\ Raise(p, "ConnectionError")
          /\ UNCHANGED <<sessionVars, running>>
     ELSE /\ service' = [service EXCEPT ![p] = connection]
          /\ BPM_series' = <<>>
          /\ SpO2_series' = <<>>
          /\ Pleth_series' = <<>>
          /\ loc_full_record' = [loc_full_record EXCEPT ![p] = <<>>]
          /\ loc_timestamps' = [loc_timestamps EXCEPT ![p] = <<>>]
          /\ t0' = [t0 EXCEPT ![p] = now]
          /\ thread' = p
          /\ running' = [running EXCEPT ![p] = "T"]
          /\ pc' = [pc EXCEPT ![p] = "check"]
          /\ UNCHANGED <<connection, full_record, timestamps, device, exc,
                         lastCall, duration, read_data, t>>
  /\ UNCHANGED <<linkUp, scanning, now, threaded, scanned, calls>>
  /\ UNCHANGED exportVars

\* The loop condition, line 151: self.connection.connected and self.thread.running.
\* The value read_data holds from the iteration before is overwritten by line
\* 152 before any use: it is dropped here.
W_Check(p) ==
  /\ pc[p] = "check"
  /\ IF connection = None
     THEN Raise(p, "AttributeError")
     ELSE IF ~linkUp[connection]
     THEN LoopExit(p)
     ELSE IF running[thread] = "unset"
     THEN Raise(p, "AttributeError")
     ELSE IF running[thread] = "F"
     THEN LoopExit(p)
     ELSE /\ pc' = [pc EXCEPT ![p] = "read"]
          /\ read_data' = [read_data EXCEPT ![p] = NoValue]
          /\ UNCHANGED <<exc, lastCall, duration, t0, service, t,
                         loc_full_record, loc_timestamps>>
  /\ UNCHANGED <<sessionVars, envVars, threaded, scanned, calls>>
  /\ UNCHANGED exportVars

\* Lines 152-163, and lines 173-176 when nothing is stored. read_data =
\* service.values is the latest sample or None; with the link down the
\* transport raises or yields nothing. A sample that passes the test of line
\* 157 gets its timestamp and goes to update_record.
W_Read(p) ==
  /\ pc[p] = "read"
  /\ \/ /\ linkUp[service[p]]
        /\ \E raw \in RawSamples :
             IF ValidSample(raw)
             THEN /\ Len(loc_timestamps[p]) < MaxLen
                  /\ read_data' = [read_data EXCEPT ![p] = Some(raw)]
                  /\ t' = [t EXCEPT ![p] = Round2(now - t0[p])]
                  /\ loc_timestamps' = [loc_timestamps EXCEPT ![p] = Append(@, Round2(now - t0[p]))]
                  /\ pc' = [pc EXCEPT ![p] = "upd1"]
             ELSE /\ read_data' = [read_data EXCEPT ![p] = Some(raw)]
                  /\ EndOfIteration(p)
                  /\ UNCHANGED <<t, loc_timestamps>>
        /\ UNCHANGED <<exc, lastCall, duration, t0, service, loc_full_record>>
     \/ /\ read_data' = [read_data EXCEPT ![p] = NoValue]
        /\ EndOfIteration(p)
        /\ UNCHANGED <<exc, lastCall, duration, t0, service, t,
                       loc_full_record, loc_timestamps>>
     \/ /\ ~linkUp[service[p]]
        /\ Raise(p, "ConnectionError")
  /\ UNCHANGED <<sessionVars, envVars, threaded, scanned, calls>>
  /\ UNCHANGED exportVars

\* update_record, line 55.
W_Upd1(p) ==
  /\ pc[p] = "upd1"
  /\ BPM_series' = Append(BPM_series, <<t[p], read_data[p][1][3]>>)
  /\ pc' = [pc EXCEPT ![p] = "upd2"]
  /\ UNCHANGED <<connection, thread, SpO2_series, Pleth_series, full_record,
                 timestamps, device, envVars, threaded, duration, t0, service,
                 read_data, t, loc_full_record, loc_timestamps, exc, obsVars>>
  /\ UNCHANGED exportVars

\* update_record, line 56.
W_Upd2(p) ==
  /\ pc[p] = "upd2"
  /\ SpO2_series' = Append(SpO2_series, <<t[p], read_data[p][1][2]>>)
  /\ pc' = [pc EXCEPT ![p] = "upd3"]
  /\ UNCHANGED <<connection, thread, BPM_series, Pleth_series, full_record,
                 timestamps, device, envVars, threaded, duration, t0, service,
                 read_data, t, loc_full_record, loc_timestamps, exc, obsVars>>
  /\ UNCHANGED exportVars

\* update_record, line 57, full_record.append(read_data), line 170, and the
\* end of the iteration, lines 173-176.
W_Upd3(p) ==
  /\ pc[p] = "upd3"
  /\ Pleth_series' = Append(Pleth_series, <<t[p], read_data[p][1][4]>>)
  /\ loc_full_record' = [loc_full_record EXCEPT ![p] = Append(@, read_data[p][1])]
  /\ EndOfIteration(p)
  /\ UNCHANGED <<connection, thread, BPM_series, SpO2_series, full_record,
                 timestamps, device, envVars, threaded, duration, t0, service,
                 read_data, t, loc_timestamps, exc, obsVars>>
  /\ UNCHANGED exportVars

\* Lines 178-183: the run's log and timestamps are published on the session,
\* then self.connection.connected is read for the notice.
W_Final(p) ==
  /\ pc[p] = "final"
  /\ full_record' = loc_full_record[p]
  /\ timestamps' = loc_timestamps[p]
  /\ IF connection = None THEN Raise(p, "AttributeError") ELSE Return(p)
  /\ UNCHANGED <<connection, thread, BPM_series, SpO2_series, Pleth_series,
                 device, envVars, threaded, scanned, calls>>
  /\ UNCHANGED exportVars

\* ------------------------------------------------------------ export
HasDuplicates(seq) == \E i, j \in 1..Len(seq) : i < j /\ seq[i] = seq[j]

\* df[label] = series on a frame whose index is idx: the values as they are
\* when the indexes are equal, else the series reindexed on idx (NaN where
\* idx has a label the series lacks), which fails on a series whose index
\* holds a label twice.
Column(series, idx) ==
  IF Index(series) = idx THEN Some(Values(series))
  ELSE IF HasDuplicates(Index(series)) THEN NoValue
  ELSE Some([i \in 1..Len(idx) |->
               IF \E j \in 1..Len(series) : series[j][1] = idx[i]
               THEN series[CHOOSE j \in 1..Len(series) : series[j][1] = idx[i]][2]
               ELSE "NaN"])

\* The property `dataframe` (lines 41-48): the columns in the order they are
\* assigned; the frame takes its index from the first series that is not
\* empty. NoValue when an assignment raises. A series the session does not
\* have yet gives the same column as an empty one.
ColumnLabels == <<"BPM", "SpO2", "Pleth">>
dataframe ==
  LET idx == IF BPM_series /= <<>> THEN Index(BPM_series)
             ELSE IF SpO2_series /= <<>> THEN Index(SpO2_series)
             ELSE Index(Pleth_series)
      cols == <<Column(BPM_series, idx), Column(SpO2_series, idx),
                Column(Pleth_series, idx)>>
  IN  IF \E c \in 1..3 : cols[c] = NoValue THEN NoValue
      ELSE Some([columns |-> ColumnLabels, index |-> idx,
                 data |-> [c \in 1..3 |-> cols[c][1]]])

\* DataFrame.to_csv(path, sep='\t'): a header row, the label of the index
\* column empty, then one row per entry of the index.
ToCsv(df) ==
  [header |-> <<"">> \o df.columns,
   rows |-> [i \in 1..Len(df.index) |->
               <<df.index[i]>> \o [c \in 1..Len(df.columns) |-> df.data[c][i]]]]

\* s[-n:]
Last(s, n) == SubSeq(s, IF Len(s) > n THEN Len(s) - n + 1 ELSE 1, Len(s))

\* Lines 215-218: the name used when filename is None.
DefaultName(prefix, stamp) ==
  IF prefix /= NoValue /\ prefix[1] /= <<>>
  THEN prefix[1] \o <<"_">> \o stamp \o TXT
  ELSE stamp \o TXT

\* The test of line 220.
ExtensionOkLastThree(name) == Last(name, 3) \in {Last(CSV, 3), Last(TXT, 3)}
ExtensionOk(name) == Last(name, 4) \in {CSV, TXT}

\* Line 221.
NormFolder(folder) ==
  IF folder[Len(folder)] \notin {"\\", "/"} THEN folder \o <<"/">> ELSE folder

\* os.path.isdir, os.path.isfile.
IsDir(folder) == folder \in folders
IsFileNever(path) == FALSE
IsFile(path) == \E f \in files : f.path = path

\* save_csv(filename, folder, prefix), called at wall-clock second `stamp`.
\* The two assertions differ in their message.
SaveCsv(filename, folder, prefix, stamp) ==
  LET name == IF filename = NoValue THEN DefaultName(prefix, stamp) ELSE filename[1]
      dir == NormFolder(folder)
      path == dir \o name
  IN  /\ IF ~ExtensionOk(name)
         THEN /\ lastCall' = Call("save_csv", "AssertionError: extension")
              /\ UNCHANGED <<folders, files>>
         ELSE /\ folders' = folders \cup {dir}
              /\ IF IsFile(path)
                 THEN /\ lastCall' = Call("save_csv", "AssertionError: exists")
                      /\ UNCHANGED files
                 ELSE IF dataframe = NoValue
                 THEN /\ lastCall' = Call("save_csv", "ValueError")
                      /\ UNCHANGED files
                 ELSE /\ files' = files \cup {[path |-> path, table |-> ToCsv(dataframe[1])]}
                      /\ lastCall' = Call("save_csv", "returned")
      /\ UNCHANGED <<sessionVars, envVars, runVars, scanned, calls>>

Connect == \E scan \in SessionScans : ConnectCall(TargetName, scan, TRUE)

Worker ==
  \E p \in Proc :
    \/ W_Start(p)
    \/ W_Check(p)
    \/ W_Read(p)
    \/ W_Upd1(p)
    \/ W_Upd2(p)
    \/ W_Upd3(p)
    \/ W_Final(p)

Next ==
  \/ Connect
  \/ Disconnect
  \/ TransportDrop
  \/ Tick
  \/ Read
  \/ StopRead
  \/ Worker

Spec == Init /\ [][Next]_vars

ConnectAny == \E scan \in AllScans, linked \in BOOLEAN : ConnectCall(TargetName, scan, linked)

NextConnect == ConnectAny \/ Disconnect \/ TransportDrop

SpecConnect == Init /\ [][NextConnect]_vars

Export ==
  \E filename \in Filenames, folder \in FolderArgs, prefix \in Prefixes,
     stamp \in Stamps :
    SaveCsv(filename, folder, prefix, stamp)

\* The caller starts a background run without a time limit when no run is
\* active.
ReadThreaded == (\A p \in Proc : ~Active(p)) /\ ReadCall(NoValue, TRUE)

NextExport ==
  \/ Connect
  \/ ReadThreaded
  \/ Worker
  \/ TransportDrop
  \/ Export

SpecExport == Init /\ [][NextExport]_vars
\* ------------------------------------------------------------ claims
NonDecreasing(seq) == \A i \in 1..Len(seq) : \A j \in i..Len(seq) : seq[i] <= seq[j]
\* At most one read() was made inline: the calls come from one foreground
\* thread, every other activation runs on a worker thread.
OneForeground == Cardinality({p \in Proc : pc[p] /= "idle" /\ ~threaded[p]}) <= 1

\* C1: cooperative stop. A stop signal delivered to the thread of an active
\* run stays set until that run is over (it is never lost), a run whose stop
\* flag is set does not pass the loop condition again, and a run that has
\* finalized takes no further step.
C1_CooperativeStop ==
  [][\A p \in Proc :
       /\ (Active(p) /\ running[p] = "F") => running'[p] = "F"
       /\ (pc[p] = "check" /\ thread = p /\ running[p] = "F") => pc'[p] /= "read"
       /\ pc[p] = "done" => pc'[p] = "done"]_vars

\* C2: transport drop mid-stream. When service.values raises a connection
\* error inside receive_data, the session ends with the handle discarded, and
\* an inline read() returns to its caller without an error.
C2_TransportDropRecovered ==
  [][\A p \in Proc :
       (pc[p] = "read" /\ exc'[p] = "ConnectionError")
         => /\ connection' = None
            /\ ~threaded[p] => lastCall' = Call("read", "returned")]_vars

\* C3: single worker. With the calls made from one foreground thread, at
\* most one acquisition loop is active at any time.
C3_SingleWorker == OneForeground => Cardinality({p \in Proc : InLoop(p)}) <= 1

\* C4: when a run finalizes (calls from one foreground thread), the three
\* series have the same length, which is the number of samples of the run
\* that passed the validity test and the length of the published timestamps.
C4_SeriesLengths ==
  [][\A p \in Proc :
       (OneForeground /\ pc[p] = "final" /\ pc'[p] /= "final")
         => /\ Len(BPM_series') = Len(SpO2_series')
            /\ Len(SpO2_series') = Len(Pleth_series')
            /\ Len(BPM_series') = Len(loc_full_record[p])
            /\ Len(BPM_series') = Len(timestamps')]_vars

\* C5: when a run finalizes (calls from one foreground thread), the
\* published timestamps and the index of each series are non-decreasing and
\* start at a value >= 0.
C5_TimestampsMonotone ==
  [][\A p \in Proc :
       (OneForeground /\ pc[p] = "final" /\ pc'[p] /= "final")
         => \A seq \in {timestamps', Index(BPM_series'), Index(SpO2_series'),
                        Index(Pleth_series')} :
              /\ NonDecreasing(seq)
              /\ seq /= <<>> => seq[1] >= 0]_vars

\* C6: sample validity. A sample read by the loop goes to update_record, and
\* gets a timestamp, iff valid is true and finger_in is true and BPM < 255;
\* every value the series and the run's log hold comes from such a sample.
C6_SampleValidity ==
  [][\A p \in Proc :
       /\ (pc[p] = "read" /\ pc'[p] \in {"upd1", "check", "final"}
             /\ read_data'[p] /= NoValue)
            => LET raw == read_data'[p][1]
                   retained == /\ pc'[p] = "upd1"
                               /\ Len(loc_timestamps'[p]) = Len(loc_timestamps[p]) + 1
                   dropped == /\ pc'[p] /= "upd1"
                              /\ loc_timestamps'[p] = loc_timestamps[p]
               IN  IF raw[1] = TRUE /\ raw[5] = TRUE /\ raw[3] < 255
                   THEN retained ELSE dropped
       /\ \A i \in 1..Len(loc_full_record'[p]) :
            LET raw == loc_full_record'[p][i]
            IN  raw[1] = TRUE /\ raw[5] = TRUE /\ raw[3] < 255
       /\ \A i \in 1..Len(BPM_series') : BPM_series'[i][2] < 255]_vars

\* C6 witness: a run has stored a sample that passed the test, and has just
\* read one that fails it and did not store it.
C6_Witness ==
  \E p \in Proc :
    /\ pc[p] = "check"
    /\ Len(loc_full_record[p]) = 1
    /\ Len(BPM_series) = 1
    /\ read_data[p] /= NoValue
    /\ read_data[p][1][5] = FALSE

\* C7 as stated: with any duration supplied, 0 included, the loop goes on
\* past the end of an iteration only if the elapsed time does not exceed it.
C7_DurationCutoffAnyValue ==
  [][\A p \in Proc :
       (pc[p] \in {"read", "upd3"} /\ pc'[p] = "check")
         => ~(duration[p] /= NoValue /\ now - t0[p] > duration[p][1])]_vars

\* C7 amended: with a non-zero duration supplied, the loop breaks at the end
\* of an iteration iff the elapsed time exceeds the duration, whatever was
\* read in that iteration.
C7_DurationCutoff ==
  [][\A p \in Proc :
       LET exceeded == /\ duration[p] /= NoValue
                       /\ duration[p][1] /= 0
                       /\ now - t0[p] > duration[p][1]
       IN  /\ (pc[p] \in {"read", "upd3"} /\ pc'[p] = "check") => ~exceeded
           /\ (pc[p] \in {"read", "upd3"} /\ pc'[p] = "final") => exceeded]_vars

\* C7 witness: a loop has been left on the time limit, with the device still
\* connected, no stop signalled and nothing read.
C7_Witness ==
  \E p \in Proc :
    /\ pc[p] = "final"
    /\ duration[p] = Some(1)
    /\ now - t0[p] > 1
    /\ connected
    /\ thread = p
    /\ running[p] = "T"
    /\ loc_timestamps[p] = <<>>
    /\ lastCall /= Call("stop_read", "returned")

\* C8: a read() made while the session is not connected returns without an
\* error and changes nothing on the session, on the threads or on the runs.
ReadStep == calls' = calls + 1 /\ (pc' /= pc \/ lastCall'.op = "read")
C8_ReadNotConnectedNoOp ==
  [][(ReadStep /\ ~connected)
       => /\ lastCall' = Call("read", "returned")
          /\ UNCHANGED <<connection, thread, BPM_series, SpO2_series,
                         Pleth_series, full_record, timestamps, device,
                         running, linkUp, runVars>>]_vars

\* C8 witness: after connect and one threaded read whose run stored a sample,
\* the link is down and a third call, a read(), came back without starting a
\* second activation.
C8_Witness ==
  /\ calls = 3
  /\ lastCall = Call("read", "returned")
  /\ connection /= None
  /\ ~linkUp[connection]
  /\ threaded[1]
  /\ pc[1] /= "idle"
  /\ pc[2] = "idle"
  /\ Len(BPM_series) = 1

\* C9: disconnect_pulse_oximeter() completes without raising from any state
\* and leaves the handle at None.
C9_DisconnectAlwaysCompletes ==
  lastCall.op = "disconnect" => (lastCall.result = "returned" /\ connection = None)

\* C10: after connect_pulse_oximeter returns, the session holds a handle iff
\* the scan yielded an advertisement whose stripped name equals the target,
\* and then it is the handle of the first one in scan order; otherwise the
\* session is disconnected.
C10_ConnectOutcome ==
  lastCall = Call("connect", "returned")
    => LET scan == scanned.scan
           hits == {i \in 1..Len(scan) : NameMatches(scan[i], scanned.target)}
       IN  /\ connection /= None <=> hits /= {}
           /\ hits /= {} => \E i \in hits : /\ \A j \in hits : i <= j
                                            /\ connection = scan[i].addr
           /\ hits = {} => (connection = None /\ ~connected)

\* C10 witness: a scan with two matching advertisements at different
\* addresses, the session holding the handle of the first.
C10_Witness ==
  /\ lastCall = Call("connect", "returned")
  /\ Len(scanned.scan) = 2
  /\ NameMatches(scanned.scan[1], scanned.target)
  /\ NameMatches(scanned.scan[2], scanned.target)
  /\ scanned.scan[1].addr /= scanned.scan[2].addr
  /\ connection = scanned.scan[1].addr

\* C11: the connected predicate is true iff the session holds a handle and
\* that handle reports itself connected now. After the transport drops with
\* no call on the session, the predicate is false, and an acquisition loop
\* at its condition check (line 151) then leaves the loop for the
\* finalization; the loop never goes on to a read while not connected.
C11_ConnectedLive ==
  [][/\ connected' <=> (connection' /= None /\ linkUp'[connection'])
     /\ (/\ calls' = calls
         /\ connection /= None
         /\ connection' = connection
         /\ linkUp[connection]
         /\ ~linkUp'[connection]) => (connected /\ ~connected')
     /\ \A p \in Proc :
          /\ (pc[p] = "check" /\ pc'[p] = "read") => connected
          /\ (/\ pc[p] = "check"
              /\ pc'[p] /= "check"
              /\ connection /= None
              /\ ~linkUp[connection]) => pc'[p] = "final"]_vars

\* C11 witness: a loop with no time limit and no stop signalled has left for
\* the finalization while the session still holds the handle of a link that
\* dropped.
C11_Witness ==
  \E p \in Proc :
    /\ pc[p] = "final"
    /\ duration[p] = NoValue
    /\ thread = p
    /\ running[p] = "T"
    /\ connection /= None
    /\ ~linkUp[connection]
    /\ ~connected
    /\ lastCall.op /= "disconnect"

\* The path save_csv resolves its arguments to: the folder, with a separator
\* at its end, followed by the file name (the generated one when none is
\* given).
ResolvedName(filename, prefix, stamp) ==
  IF filename /= NoValue THEN filename[1]
  ELSE IF prefix \in {NoValue, Some(<<>>)} THEN stamp \o <<".", "t", "x", "t">>
  ELSE prefix[1] \o <<"_">> \o stamp \o <<".", "t", "x", "t">>
ResolvedPath(filename, folder, prefix, stamp) ==
  (IF folder[Len(folder)] \in {"/", "\\"} THEN folder ELSE folder \o <<"/">>)
    \o ResolvedName(filename, prefix, stamp)
RecognizedExtension(name) ==
  /\ Len(name) >= 4
  /\ SubSeq(name, Len(name) - 3, Len(name)) \in
       {<<".", "c", "s", "v">>, <<".", "t", "x", "t">>}

\* C12: export never overwrites. No step changes or removes a file that
\* exists, a path never holds two contents, and a save_csv call whose
\* resolved path exists as a file is rejected and leaves the file system as
\* it is; a call with a recognized extension on a path that does not exist
\* creates the file (so two calls on one path succeed exactly once).
C12_NeverOverwrites ==
  [][/\ \A f \in files : f \in files'
     /\ \A f, g \in files' : f.path = g.path => f = g
     /\ \A filename \in Filenames, folder \in FolderArgs, prefix \in Prefixes,
           stamp \in Stamps :
          SaveCsv(filename, folder, prefix, stamp) =>
            LET name == ResolvedName(filename, prefix, stamp)
                path == ResolvedPath(filename, folder, prefix, stamp)
                exists == \E f \in files : f.path = path
            IN  /\ (RecognizedExtension(name) /\ exists)
                     => /\ lastCall' = Call("save_csv", "AssertionError: exists")
                        /\ files' = files
                /\ (RecognizedExtension(name) /\ ~exists /\ dataframe /= NoValue)
                     => /\ lastCall' = Call("save_csv", "returned")
                        /\ \E f \in files' : f.path = path
                        /\ Cardinality(files') = Cardinality(files) + 1]_vars

\* C12 witness: one file exists, it holds a table written before the run
\* stored its sample, and a later save_csv was rejected because its path
\* exists; the table the session holds now differs from the file's.
C12_Witness ==
  /\ lastCall = Call("save_csv", "AssertionError: exists")
  /\ Cardinality(files) = 1
  /\ \A p \in Proc : ~Active(p)
  /\ Len(BPM_series) = 1
  /\ dataframe /= NoValue
  /\ \A f \in files : f.table.rows = <<>> /\ f.table /= ToCsv(dataframe[1])

\* C13: a save_csv call whose file name does not end in .csv or .txt raises
\* and changes nothing in the file system: no folder is created and no file
\* is written.
C13_BadExtensionNoMutation ==
  [][\A filename \in Filenames, folder \in FolderArgs, prefix \in Prefixes,
        stamp \in Stamps :
       (/\ SaveCsv(filename, folder, prefix, stamp)
        /\ ~RecognizedExtension(ResolvedName(filename, prefix, stamp)))
         => /\ lastCall' = Call("save_csv", "AssertionError: extension")
            /\ folders' = folders
            /\ files' = files]_vars

\* C13 witness: a call was rejected for its extension while the session held
\* a sample and the destination folder did not exist; nothing was created.
C13_Witness ==
  /\ lastCall = Call("save_csv", "AssertionError: extension")
  /\ Len(Pleth_series) = 1
  /\ folders = {}
  /\ files = {}

\* C14: synchronous mode. The loop of a run started by read(threaded=False),
\* the only run of the session, is left for the finalization only when the
\* transport is disconnected or when a duration was given and the elapsed
\* time exceeds it; a stop_read() made meanwhile does not end it.
C14_SynchronousNotStoppable ==
  [][\A p \in Proc :
       (/\ ~threaded[p]
        /\ \A q \in Proc \ {p} : pc[q] = "idle"
        /\ InLoop(p)
        /\ pc'[p] = "final")
         => \/ connection = None
            \/ ~linkUp[connection]
            \/ duration[p] /= NoValue /\ now - t0[p] > duration[p][1]]_vars

\* A name with every NUL it contains removed.
WithoutNuls(name) == SelectSeq(name, LAMBDA c : c /= NUL)
\* k NULs in a row.
Nuls(k) == [i \in 1..k |-> NUL]
\* The name is the target between a run of NULs and a run of NULs.
PaddedTarget(name, target) ==
  \E i, j \in 0..Len(name) : name = Nuls(i) \o target \o Nuls(j)

\* C15 as stated: after connect_pulse_oximeter returns, the session holds a
\* handle iff the scan yielded an advertisement with a name that is present,
\* not empty and, with the NULs it contains removed, equal to the target.
C15_NameMatchAllNulsRemoved ==
  lastCall = Call("connect", "returned")
    => (connection /= None
          <=> \E i \in 1..Len(scanned.scan) :
                LET name == scanned.scan[i].complete_name
                IN  /\ name /= NoValue
                    /\ name[1] /= <<>>
                    /\ WithoutNuls(name[1]) = scanned.target)

\* C15 amended: after connect_pulse_oximeter returns, the session holds a
\* handle iff the scan yielded an advertisement with a name that is present
\* and is the target with NULs before it and after it only (none inside);
\* a name with one more character, an empty name and a missing name do not
\* match.
C15_NameMatch ==
  lastCall = Call("connect", "returned")
    => (connection /= None
          <=> \E i \in 1..Len(scanned.scan) :
                LET name == scanned.scan[i].complete_name
                IN  /\ name /= NoValue
                    /\ PaddedTarget(name[1], scanned.target))

\* C15 witness: a scan of a name with a NUL inside and of a name with a NUL
\* in front: the session holds the handle of the second.
C15_Witness ==
  /\ lastCall = Call("connect", "returned")
  /\ Len(scanned.scan) = 2
  /\ scanned.scan[1].complete_name = Some(<<"B", NUL, "M">>)
  /\ scanned.scan[2].complete_name = Some(<<NUL>> \o TargetName)
  /\ scanned.scan[1].addr /= scanned.scan[2].addr
  /\ connection = scanned.scan[2].addr

\* C16: the combined table has exactly the three columns PULSE, SPO2, PLETH
\* in that order: the dataframe property once the session holds a sample,
\* and the header row of every file save_csv wrote, after the label of the
\* index column; the table has one row per entry of the series.
C16_TableColumns ==
  /\ (BPM_series /= <<>> /\ dataframe /= NoValue)
       => /\ dataframe[1].columns = <<"PULSE", "SPO2", "PLETH">>
          /\ Len(dataframe[1].index) = Len(BPM_series)
  /\ \A f \in files :
       /\ Tail(f.table.header) = <<"PULSE", "SPO2", "PLETH">>
       /\ \A i \in 1..Len(f.table.rows) : Len(f.table.rows[i]) = 4

\* C17: finalization on every exit. Whenever a run that entered its loop
\* stops, by returning or on a connection error raised by a read, the log
\* and the timestamps of that run are what the session publishes as
\* full_record and timestamps.
C17_FinalizedOnEveryExit ==
  [][\A p \in Proc :
       (/\ InLoop(p) \/ pc[p] = "final"
        /\ \/ pc'[p] = "done"
           \/ pc'[p] = "dead" /\ exc'[p] = "ConnectionError")
         => /\ full_record' = loc_full_record[p]
            /\ timestamps' = loc_timestamps[p]]_vars

\* C18: order preservation. With the calls made from one foreground thread,
\* whenever a run stands between two iterations of its loop or at its
\* finalization, the series, the run's timestamps and the run's log have the
\* same length, and their i-th entries come from the same sample, in the
\* order of validation.
C18_OrderPreserved ==
  OneForeground =>
    \A p \in Proc :
      pc[p] \in {"check", "read", "final"} =>
        /\ Len(loc_timestamps[p]) = Len(loc_full_record[p])
        /\ Len(BPM_series) = Len(loc_full_record[p])
        /\ Len(SpO2_series) = Len(loc_full_record[p])
        /\ Len(Pleth_series) = Len(loc_full_record[p])
        /\ \A i \in 1..Len(loc_full_record[p]) :
             /\ BPM_series[i] = <<loc_timestamps[p][i], loc_full_record[p][i][3]>>
             /\ SpO2_series[i] = <<loc_timestamps[p][i], loc_full_record[p][i][2]>>
             /\ Pleth_series[i] = <<loc_timestamps[p][i], loc_full_record[p][i][4]>>

\* C19: fresh run per streaming call. When receive_data starts its run on a
\* connected session while no other run is active (calls from one
\* foreground thread), the run data of the session is empty from then on:
\* the three series, full_record and timestamps show no sample of a run
\* before.
C19_FreshRun ==
  [][\A p \in Proc :
       (/\ pc[p] = "start"
        /\ pc'[p] = "check"
        /\ OneForeground
        /\ connected
        /\ \A q \in Proc \ {p} : ~Active(q))
         => /\ BPM_series' = <<>>
            /\ SpO2_series' = <<>>
            /\ Pleth_series' = <<>>
            /\ full_record' = <<>>
            /\ timestamps' = <<>>]_vars

\* C20: scan always stopped. Once control has left connect_pulse_oximeter,
\* by a return or by the error of a failed connect attempt, the advertising
\* scan it started is not active.
C20_ScanStopped == lastCall.op = "connect" => ~scanning
=============================================================================
